---- MODULE Spec2Model ----
(***************************************************************************)
(* A model of mane: a literal find-and-replace tool that propagates a rule *)
(* over five naming conventions, rewrites file contents, renames files and *)
(* directories in place, and copies trees with replacements.               *)
(*                                                                         *)
(* Strings are sequences of one-character strings.  Paths are sequences of *)
(* names (the components below the traversal root ".").                    *)
(***************************************************************************)
EXTENDS Integers, Sequences, FiniteSets, TLC

VARIABLES
    \* ---- case.rs: detect_case / convert_case on one token
    tok, style, conv, det, cpc,
    \* ---- case.rs / replacer.rs: one apply_replacement call
    content, rfrom, rto, case_enabled, result, apc,
    \* ---- args.rs: the process-wide toggles
    GLOBAL_CASE_ENABLED, GLOBAL_RENAME_FILE_ENABLED, GLOBAL_RENAME_DIR_ENABLED,
    \* ---- args.rs: Args and validate_args; ignored is the set of paths that
    \* ---- the .gitignore rules in effect exclude
    replacement_rules, rules, mode, include_git_ignore, vpc,
    args_rename_file, args_rename_dir, ignored,
    \* ---- the filesystem and the run over it (scanner.rs, copier.rs)
    fs, fs0, all_paths, sorted_paths, idx, pc, processed, reached, conflicts,
    copy_specs, attempted, walk, actual_target_dir, lastcopy

caseVars == <<tok, style, conv, det, cpc>>
applyVars == <<content, rfrom, rto, case_enabled, result, apc>>
globalVars == <<GLOBAL_CASE_ENABLED, GLOBAL_RENAME_FILE_ENABLED, GLOBAL_RENAME_DIR_ENABLED>>
argsVars == <<replacement_rules, rules, mode, include_git_ignore, vpc,
              args_rename_file, args_rename_dir, ignored>>
runVars == <<fs, fs0, all_paths, sorted_paths, idx, pc, processed, reached, conflicts>>
copyVars == <<copy_specs, attempted, walk, actual_target_dir, lastcopy>>
vars == <<caseVars, applyVars, globalVars, argsVars, runVars, copyVars>>

(***************************************************************************)
(* Characters and strings                                                  *)
(***************************************************************************)
LowerChars == {"a", "b", "z"}
UpperChars == {"A", "B", "Z"}

\* char::to_uppercase / char::to_lowercase on the model's characters
to_uppercase_char(c) ==
    CASE c = "a" -> "A" [] c = "b" -> "B" [] c = "z" -> "Z" [] OTHER -> c

to_lowercase_char(c) ==
    CASE c = "A" -> "a" [] c = "B" -> "b" [] c = "Z" -> "z" [] OTHER -> c

is_uppercase(c) == c \in UpperChars
is_lowercase(c) == c \in LowerChars

to_uppercase(s) == [i \in 1..Len(s) |-> to_uppercase_char(s[i])]
to_lowercase(s) == [i \in 1..Len(s) |-> to_lowercase_char(s[i])]

\* str::contains(pat): the empty pattern is contained in every string
contains(s, pat) ==
    \E i \in 1..(Len(s) - Len(pat) + 1) : SubSeq(s, i, i + Len(pat) - 1) = pat

contains_char(s, c) == \E i \in 1..Len(s) : s[i] = c

\* str::replace(from, to): every non-overlapping match, scanning left to
\* right; the empty pattern matches before every character and at the end
RECURSIVE replace_from(_, _, _, _)
replace_from(s, i, from, to) ==
    IF i > Len(s) THEN (IF from = <<>> THEN to ELSE <<>>)
    ELSE IF from = <<>> THEN to \o <<s[i]>> \o replace_from(s, i + 1, from, to)
    ELSE IF i + Len(from) - 1 <= Len(s) /\ SubSeq(s, i, i + Len(from) - 1) = from
         THEN to \o replace_from(s, i + Len(from), from, to)
         ELSE <<s[i]>> \o replace_from(s, i + 1, from, to)

replace(s, from, to) == replace_from(s, 1, from, to)

\* the pieces of s between the occurrences of the character sep
RECURSIVE split_on(_, _, _, _)
split_on(s, sep, i, cur) ==
    IF i > Len(s) THEN <<cur>>
    ELSE IF s[i] = sep THEN <<cur>> \o split_on(s, sep, i + 1, <<>>)
    ELSE split_on(s, sep, i + 1, Append(cur, s[i]))

\* all strings over alphabet A of length at most n
RECURSIVE StringsUpTo(_, _)
StringsUpTo(A, n) ==
    IF n = 0 THEN {<<>>}
    ELSE LET shorter == StringsUpTo(A, n - 1)
         IN  shorter \cup {Append(s, c) : s \in {t \in shorter : Len(t) = n - 1}, c \in A}

(***************************************************************************)
(* case.rs: StringCase, detect_case, convert_case                          *)
(***************************************************************************)
Pascal == "Pascal"
Kebab == "Kebab"
Camel == "Camel"
ScreamingSnake == "ScreamingSnake"
Snake == "Snake"
Unknown == "Unknown"

StringCase == {Pascal, Kebab, Camel, ScreamingSnake, Snake, Unknown}

\* the order of the case_variants array in replace_with_case_variants
case_variants == <<Pascal, Kebab, Camel, ScreamingSnake, Snake>>

first_char(s) == IF Len(s) = 0 THEN " " ELSE s[1]

detect_case(s) ==
    IF contains_char(s, "-") THEN Kebab
    ELSE IF contains_char(s, "_")
         THEN (IF to_uppercase(s) = s THEN ScreamingSnake ELSE Snake)
    ELSE IF ~is_uppercase(first_char(s)) /\ (\E i \in 1..Len(s) : is_uppercase(s[i]))
         THEN Camel
    ELSE IF is_uppercase(first_char(s)) /\ (\E i \in 1..Len(s) : is_lowercase(s[i]))
         THEN Pascal
    ELSE Unknown

\* The word boundaries of Casing::to_case: the delimiters '_', '-', ' ' are
\* removed; a word also ends between a lowercase and an uppercase letter
\* and before the last capital of an acronym ("ABc" -> "A", "Bc").
Delimiters == {"_", "-", " "}

boundary_after(s, i) ==
    /\ i < Len(s)
    /\ \/ is_lowercase(s[i]) /\ is_uppercase(s[i + 1])
       \/ /\ i + 2 <= Len(s)
          /\ is_uppercase(s[i]) /\ is_uppercase(s[i + 1]) /\ is_lowercase(s[i + 2])

\* words(s, i, cur): the words of s[i..], cur being the word in progress
RECURSIVE split_words(_, _, _)
split_words(s, i, cur) ==
    IF i > Len(s) THEN (IF cur = <<>> THEN <<>> ELSE <<cur>>)
    ELSE IF s[i] \in Delimiters
         THEN (IF cur = <<>> THEN <<>> ELSE <<cur>>) \o split_words(s, i + 1, <<>>)
    ELSE IF boundary_after(s, i)
         THEN <<Append(cur, s[i])>> \o split_words(s, i + 1, <<>>)
         ELSE split_words(s, i + 1, Append(cur, s[i]))

capitalize(w) ==
    IF w = <<>> THEN <<>>
    ELSE <<to_uppercase_char(w[1])>> \o to_lowercase(SubSeq(w, 2, Len(w)))

RECURSIVE join_words(_, _)
join_words(ws, sep) ==
    IF ws = <<>> THEN <<>>
    ELSE IF Len(ws) = 1 THEN ws[1]
    ELSE ws[1] \o sep \o join_words(Tail(ws), sep)

convert_case(s, case_type) ==
    LET ws == split_words(s, 1, <<>>)
    IN  CASE case_type = Pascal ->
               join_words([i \in 1..Len(ws) |-> capitalize(ws[i])], <<>>)
          [] case_type = Kebab ->
               join_words([i \in 1..Len(ws) |-> to_lowercase(ws[i])], <<"-">>)
          [] case_type = Camel ->
               join_words([i \in 1..Len(ws) |->
                              IF i = 1 THEN to_lowercase(ws[i]) ELSE capitalize(ws[i])], <<>>)
          [] case_type = ScreamingSnake ->
               join_words([i \in 1..Len(ws) |-> to_uppercase(ws[i])], <<"_">>)
          [] case_type = Snake ->
               join_words([i \in 1..Len(ws) |-> to_lowercase(ws[i])], <<"_">>)
          [] OTHER -> s

(***************************************************************************)
(* case.rs: replace_with_case_variants; replacer.rs: apply_replacement,    *)
(* replace_content                                                         *)
(***************************************************************************)
\* the for loop with the occurrence test made on the running result
RECURSIVE variant_passes_running_test(_, _, _, _, _)
variant_passes_running_test(content_in, running, from, to, k) ==
    IF k > Len(case_variants) THEN running
    ELSE LET from_variant == convert_case(from, case_variants[k])
         IN  IF from_variant = from \/ from_variant = <<>>
             THEN variant_passes_running_test(content_in, running, from, to, k + 1)
             ELSE IF ~contains(running, from_variant)
             THEN variant_passes_running_test(content_in, running, from, to, k + 1)
             ELSE variant_passes_running_test(content_in,
                                 replace(running, from_variant,
                                         convert_case(to, case_variants[k])),
                                 from, to, k + 1)

\* the for loop over case_variants, from style number k on; the occurrence
\* test reads the content as passed in, the replacement the running result
RECURSIVE variant_passes(_, _, _, _, _)
variant_passes(content_in, running, from, to, k) ==
    IF k > Len(case_variants) THEN running
    ELSE LET from_variant == convert_case(from, case_variants[k])
         IN  IF from_variant = from \/ from_variant = <<>>
             THEN variant_passes(content_in, running, from, to, k + 1)
             ELSE IF ~contains(content_in, from_variant)
             THEN variant_passes(content_in, running, from, to, k + 1)
             ELSE variant_passes(content_in,
                                 replace(running, from_variant,
                                         convert_case(to, case_variants[k])),
                                 from, to, k + 1)

\* the direct replacement with its arguments exchanged: replace(to, from)
replace_with_case_variants_swapped(content_in, from, to, global_case_enabled) ==
    LET direct == replace(content_in, to, from)
    IN  IF global_case_enabled
        THEN variant_passes(content_in, direct, from, to, 1)
        ELSE direct

\* global_case_enabled is the value GLOBAL_CASE_ENABLED holds when it is read
replace_with_case_variants(content_in, from, to, global_case_enabled) ==
    LET direct == replace(content_in, from, to)
    IN  IF global_case_enabled
        THEN variant_passes(content_in, direct, from, to, 1)
        ELSE direct

\* stores case_enabled in GLOBAL_CASE_ENABLED (the actions below record the
\* store) and calls replace_with_case_variants, which reads it back
apply_replacement(content_in, from, to, enabled) ==
    replace_with_case_variants(content_in, from, to, enabled)

\* the fold of apply_replacement over args.rules, rule number k on
RECURSIVE replace_content_from(_, _, _, _)
replace_content_from(running, rs, enabled, k) ==
    IF k > Len(rs) THEN running
    ELSE replace_content_from(
             apply_replacement(running, rs[k].from, rs[k].to, enabled),
             rs, enabled, k + 1)

\* the fold taken from the last rule to the first
RECURSIVE replace_content_reversed_from(_, _, _, _)
replace_content_reversed_from(running, rs, enabled, k) ==
    IF k < 1 THEN running
    ELSE replace_content_reversed_from(
             apply_replacement(running, rs[k].from, rs[k].to, enabled),
             rs, enabled, k - 1)

replace_content_reversed(content_in, rs, enabled) ==
    replace_content_reversed_from(content_in, rs, enabled, Len(rs))

replace_content(content_in, rs, enabled) == replace_content_from(content_in, rs, enabled, 1)

\* apply_replacement stores args.case_enabled once per rule of replace_content
global_after_replace(g) == IF rules = <<>> THEN g ELSE case_enabled

(***************************************************************************)
(* The filesystem: a function from paths to nodes.  The path <<>> is the   *)
(* traversal root ".".  A node keeps the path it had in the initial tree   *)
(* as its identity, so an entry can be followed through renames.           *)
(***************************************************************************)
NodeId(p, created) == [at |-> p, created |-> created]
DirNode(id) == [kind |-> "dir", data |-> <<>>, utf8 |-> TRUE, id |-> id]
FileNode(data, utf8, id) == [kind |-> "file", data |-> data, utf8 |-> utf8, id |-> id]

exists(f, p) == p \in DOMAIN f
is_file(f, p) == p \in DOMAIN f /\ f[p].kind = "file"
is_dir(f, p) == p \in DOMAIN f /\ f[p].kind = "dir"

Front(p) == SubSeq(p, 1, Len(p) - 1)
Last(p) == p[Len(p)]

is_prefix(p, q) == Len(p) <= Len(q) /\ SubSeq(q, 1, Len(p)) = p
is_ancestor(p, q) == Len(p) < Len(q) /\ is_prefix(p, q)
children(f, p) == {q \in DOMAIN f : Len(q) = Len(p) + 1 /\ is_prefix(p, q)}

\* Path::join of a relative name: its components, the pieces between the
\* separators "/", are appended; joining "" leaves the components unchanged
join(parent, name) ==
    parent \o SelectSeq(split_on(name, "/", 1, <<>>), LAMBDA piece : piece # <<>>)

\* the length of to_string_lossy(): "." for the root, "./a/b" below it
RECURSIVE path_str_len(_)
path_str_len(p) ==
    IF p = <<>> THEN 1 ELSE path_str_len(Front(p)) + 1 + Len(Last(p))

\* a lossy read (String::from_utf8_lossy) in place of read_to_string
read_to_string_lossy(node) == [ok |-> TRUE, text |-> node.data]

\* fs::read_to_string: an error when the bytes are not UTF-8
read_to_string(node) ==
    IF node.utf8 THEN [ok |-> TRUE, text |-> node.data]
    ELSE [ok |-> FALSE, text |-> <<>>]

\* fs::write to an existing file or a new one in an existing directory
fs_write(f, p, data, utf8) ==
    IF is_dir(f, p) \/ ~is_dir(f, Front(p)) THEN [ok |-> FALSE, fs |-> f]
    ELSE IF p \in DOMAIN f
         THEN [ok |-> TRUE, fs |-> [f EXCEPT ![p].data = data, ![p].utf8 = utf8]]
         ELSE [ok |-> TRUE, fs |-> [q \in DOMAIN f \cup {p} |->
                                       IF q = p THEN FileNode(data, utf8, NodeId(p, TRUE))
                                       ELSE f[q]]]

\* fs::rename (rename(2)): moves src and everything below it to dst; an
\* existing dst is replaced when it is a file (by a file) or an empty
\* directory (by a directory), and is an error otherwise
fs_rename(f, src, dst) ==
    IF src \notin DOMAIN f \/ ~is_dir(f, Front(dst)) \/ is_prefix(src, Front(dst))
    THEN [ok |-> FALSE, fs |-> f]
    ELSE IF src = dst THEN [ok |-> TRUE, fs |-> f]
    ELSE IF /\ dst \in DOMAIN f
            /\ \/ f[src].kind # f[dst].kind
               \/ children(f, dst) # {}
         THEN [ok |-> FALSE, fs |-> f]
    ELSE LET moved == {q \in DOMAIN f : is_prefix(src, q)}
             target(q) == dst \o SubSeq(q, Len(src) + 1, Len(q))
             kept == (DOMAIN f \ moved) \ {dst}
         IN  [ok |-> TRUE,
              fs |-> [q \in kept \cup {target(m) : m \in moved} |->
                         IF q \in kept THEN f[q]
                         ELSE f[CHOOSE m \in moved : target(m) = q]]]

(***************************************************************************)
(* The ignore crate's walker                                               *)
(***************************************************************************)
is_hidden(name) == Len(name) > 0 /\ name[1] = "."

\* the entries a walker yields below the root; with skip_hidden, a hidden
\* entry is neither yielded nor descended into (the root itself always is)
yielded(f, root, q, skip_hidden) ==
    /\ is_prefix(root, q)
    /\ skip_hidden => \A k \in (Len(root) + 1)..Len(q) : ~is_hidden(q[k])

\* depth-first preorders of the yielded entries, siblings in any order
RECURSIVE dfs_orders(_, _, _, _), forest_orders(_, _, _, _)
dfs_orders(f, root, p, skip_hidden) ==
    {<<p>> \o rest :
        rest \in forest_orders(f, root,
                               {c \in children(f, p) : yielded(f, root, c, skip_hidden)},
                               skip_hidden)}

forest_orders(f, root, cs, skip_hidden) ==
    IF cs = {} THEN {<<>>}
    ELSE UNION {{o1 \o o2 : o1 \in dfs_orders(f, root, c, skip_hidden),
                            o2 \in forest_orders(f, root, cs \ {c}, skip_hidden)} : c \in cs}

\* what a walker built with git_ignore(true) sees below root: an entry that
\* an ignore rule excludes is neither yielded nor descended into
without_ignored(f, root) ==
    [q \in {p \in DOMAIN f :
               \A k \in (Len(root) + 1)..Len(p) : SubSeq(p, 1, k) \notin ignored} |-> f[q]]

\* scanner.rs walk_and_process_path: Walk::new (defaults: hidden entries
\* skipped, .gitignore respected) when include_git_ignore, else WalkBuilder
\* with hidden(false) and git_ignore(true)
scan_walk_orders(f, root, git_ignore_included) ==
    IF root \notin DOMAIN f THEN {<<>>}
    ELSE dfs_orders(without_ignored(f, root), root, root, git_ignore_included)

\* copier.rs copy_directory: WalkBuilder with git_ignore(false) when
\* include_git_ignore, else git_ignore(true); hidden entries are skipped by
\* the builder's default in both
copy_walk_orders(f, source_dir, git_ignore_included) ==
    dfs_orders(IF git_ignore_included THEN f ELSE without_ignored(f, source_dir),
               source_dir, source_dir, TRUE)

\* sort_by(|a, b| b.len().cmp(&a.len())): stable, longest path string first
RECURSIVE insert_by_len(_, _)
insert_by_len(sorted, p) ==
    IF sorted = <<>> THEN <<p>>
    ELSE IF path_str_len(Head(sorted)) >= path_str_len(p)
         THEN <<Head(sorted)>> \o insert_by_len(Tail(sorted), p)
         ELSE <<p>> \o sorted

RECURSIVE sort_paths_from(_, _, _)
sort_paths_from(paths, k, acc) ==
    IF k > Len(paths) THEN acc
    ELSE sort_paths_from(paths, k + 1, insert_by_len(acc, paths[k]))

\* the comparison turned round (a.len().cmp(&b.len())): shortest first
RECURSIVE insert_by_len_ascending(_, _)
insert_by_len_ascending(sorted, p) ==
    IF sorted = <<>> THEN <<p>>
    ELSE IF path_str_len(Head(sorted)) <= path_str_len(p)
         THEN <<Head(sorted)>> \o insert_by_len_ascending(Tail(sorted), p)
         ELSE <<p>> \o sorted

RECURSIVE sort_paths_ascending_from(_, _, _)
sort_paths_ascending_from(paths, k, acc) ==
    IF k > Len(paths) THEN acc
    ELSE sort_paths_ascending_from(paths, k + 1, insert_by_len_ascending(acc, paths[k]))

sort_paths_ascending(paths) == sort_paths_ascending_from(paths, 1, <<>>)

sort_paths(paths) == sort_paths_from(paths, 1, <<>>)

(***************************************************************************)
(* Values of the variables a specification does not use                    *)
(***************************************************************************)
NoFs == [p \in {} |-> 0]

IdleCase == tok = <<>> /\ style = Unknown /\ conv = <<>> /\ det = Unknown /\ cpc = "idle"

IdleApply ==
    /\ content = <<>> /\ rfrom = <<>> /\ rto = <<>> /\ case_enabled = TRUE
    /\ result = <<>> /\ apc = "idle"

\* parse(): args.rename_file = true, args.rename_dir = true; no path is
\* excluded by an ignore rule
ParsedToggles == args_rename_file = TRUE /\ args_rename_dir = TRUE /\ ignored = {}

IdleArgs ==
    /\ replacement_rules = <<>> /\ rules = <<>> /\ mode = "None"
    /\ include_git_ignore = FALSE /\ vpc = "idle"
    /\ ParsedToggles

IdleRun ==
    /\ fs = NoFs /\ fs0 = NoFs /\ all_paths = <<>> /\ sorted_paths = <<>> /\ idx = 0
    /\ pc = "idle" /\ processed = {} /\ reached = <<>> /\ conflicts = {}

IdleCopy ==
    /\ copy_specs = <<>> /\ attempted = <<>> /\ walk = <<>> /\ actual_target_dir = <<>>
    /\ lastcopy = <<>>

\* args.rs: the statics start true, and parse() stores true again
InitGlobals ==
    /\ GLOBAL_CASE_ENABLED = TRUE
    /\ GLOBAL_RENAME_FILE_ENABLED = TRUE
    /\ GLOBAL_RENAME_DIR_ENABLED = TRUE

(***************************************************************************)
(* SpecCase: convert_case and detect_case on one token                     *)
(***************************************************************************)
MaxTokLen == 3

TokenAlphabet == {"a", "b", "A", "B", ".", "-", "_", " "}
Tokens == StringsUpTo(TokenAlphabet, MaxTokLen)
ConcreteStyles == {Pascal, Kebab, Camel, ScreamingSnake, Snake}

InitCase ==
    /\ tok \in Tokens
    /\ style \in ConcreteStyles
    /\ conv = <<>> /\ det = Unknown /\ cpc = "start"
    /\ IdleApply /\ InitGlobals /\ IdleArgs /\ IdleRun /\ IdleCopy

\* conv := convert_case(tok, style); det := detect_case(conv)
Convert ==
    /\ cpc = "start"
    /\ conv' = convert_case(tok, style)
    /\ det' = detect_case(conv')
    /\ cpc' = "converted"
    /\ UNCHANGED <<tok, style, applyVars, globalVars, argsVars, runVars, copyVars>>

NextCase == Convert

SpecCase == InitCase /\ [][NextCase]_vars

(***************************************************************************)
(* Properties of convert_case and detect_case (SpecCase)                   *)
(***************************************************************************)
\* C10: for every token T and concrete style S,
\* detect_case(convert_case(T, S)) is S or Unknown, never another style.
C10_DetectAfterConvert ==
    cpc = "converted" => det \in {style, Unknown}

\* C11: convert_case is idempotent in its target style, that is
\* convert_case(convert_case(T, S), S) = convert_case(T, S); and the forms
\* of a token in any two of the five styles convert to the same string in
\* style S.
C11_ConvertIdempotent ==
    cpc = "converted" =>
        /\ convert_case(conv, style) = conv
        /\ \A s1, s2 \in ConcreteStyles :
              convert_case(convert_case(tok, s1), style)
                  = convert_case(convert_case(tok, s2), style)

(***************************************************************************)
(* SpecApply: one apply_replacement call                                   *)
(***************************************************************************)
MaxRuleLen == 2
MaxContentLen == 3

FromAlphabet == {"a", "A", "_"}
ToAlphabet == {"a", "A"}
ContentAlphabet == {"a", "A", "_", "."}

\* validate_args rejects an empty FROM; TO may be empty
FromStrings == StringsUpTo(FromAlphabet, MaxRuleLen) \ {<<>>}
ToStrings == StringsUpTo(ToAlphabet, MaxRuleLen)
Contents == StringsUpTo(ContentAlphabet, MaxContentLen)

InitApply ==
    /\ rfrom \in FromStrings
    /\ rto \in ToStrings
    /\ content \in Contents
    /\ case_enabled \in BOOLEAN
    /\ result = <<>> /\ apc = "start"
    /\ IdleCase /\ InitGlobals /\ IdleArgs /\ IdleRun /\ IdleCopy

Apply ==
    /\ apc = "start"
    /\ GLOBAL_CASE_ENABLED' = case_enabled
    /\ result' = apply_replacement(content, rfrom, rto, case_enabled)
    /\ apc' = "applied"
    /\ UNCHANGED <<content, rfrom, rto, case_enabled, caseVars, argsVars, runVars, copyVars,
                   GLOBAL_RENAME_FILE_ENABLED, GLOBAL_RENAME_DIR_ENABLED>>

NextApply == Apply

SpecApply == InitApply /\ [][NextApply]_vars

(***************************************************************************)
(* Properties of one apply_replacement call (SpecApply)                    *)
(***************************************************************************)
\* the forms of from that a rule rewrites: from itself and its variants
forms_of(from) ==
    ({from} \cup {convert_case(from, case_variants[k]) : k \in 1..Len(case_variants)}) \ {<<>>}

\* what a form of from is to become: to for from itself, convert(to, S) for
\* a style S whose variant of from it is
images_of(form, from, to) ==
    (IF form = from THEN {to} ELSE {})
        \cup {convert_case(to, case_variants[k]) :
                 k \in {j \in 1..Len(case_variants) : convert_case(from, case_variants[j]) = form}}

\* C3: with case variants enabled, every occurrence of from is rewritten to
\* to and every occurrence of convert(from, S) to convert(to, S): a content
\* that is a list of forms of from, separated by ".", becomes the list of
\* their images.
C3_EveryVariantRewritten ==
    (apc = "applied" /\ case_enabled) =>
        LET forms == split_on(content, ".", 1, <<>>)
            images == split_on(result, ".", 1, <<>>)
        IN  (\A i \in 1..Len(forms) : forms[i] \in forms_of(rfrom)) =>
                /\ Len(images) = Len(forms)
                /\ \A i \in 1..Len(forms) : images[i] \in images_of(forms[i], rfrom, rto)

\* the one-word rule a -> Aa (foo -> FooBar) on "a.A" ("foo.Foo")
C3_ChainedExample ==
    (apc = "applied" /\ case_enabled /\ rfrom = <<"a">> /\ rto = <<"A", "a">>
        /\ content = <<"a", ".", "A">>)
    => result = <<"A", "a", ".", "A", "a">>

\* A running result that remembers which of its characters a pass wrote:
\* a sequence of [c, w], w being TRUE for the characters of a replacement.
original_text(text) == [i \in 1..Len(text) |-> [c |-> text[i], w |-> FALSE]]
written_text(text) == [i \in 1..Len(text) |-> [c |-> text[i], w |-> TRUE]]
chars_of(ms) == [i \in 1..Len(ms) |-> ms[i].c]

matches_at(ms, i, from) ==
    i + Len(from) - 1 <= Len(ms) /\ chars_of(SubSeq(ms, i, i + Len(from) - 1)) = from

\* replace on such a result, for a non-empty pattern: the matches are those
\* of str::replace; st.chained records a match that takes in a written
\* character
RECURSIVE replace_marked_from(_, _, _, _)
replace_marked_from(ms, i, from, to) ==
    IF i > Len(ms) THEN [ms |-> <<>>, chained |-> FALSE]
    ELSE IF matches_at(ms, i, from)
         THEN LET rest == replace_marked_from(ms, i + Len(from), from, to)
              IN  [ms |-> written_text(to) \o rest.ms,
                   chained |-> rest.chained
                                \/ \E j \in i..(i + Len(from) - 1) : ms[j].w]
         ELSE LET rest == replace_marked_from(ms, i + 1, from, to)
              IN  [ms |-> <<ms[i]>> \o rest.ms, chained |-> rest.chained]

\* the passes of replace_with_case_variants over such a result
RECURSIVE marked_variant_passes(_, _, _, _, _)
marked_variant_passes(content_in, st, from, to, k) ==
    IF k > Len(case_variants) THEN st
    ELSE LET from_variant == convert_case(from, case_variants[k])
         IN  IF from_variant = from \/ from_variant = <<>> \/ ~contains(content_in, from_variant)
             THEN marked_variant_passes(content_in, st, from, to, k + 1)
             ELSE LET pass == replace_marked_from(st.ms, 1, from_variant,
                                                  convert_case(to, case_variants[k]))
                  IN  marked_variant_passes(content_in,
                                            [ms |-> pass.ms,
                                             chained |-> st.chained \/ pass.chained],
                                            from, to, k + 1)

marked_apply(content_in, from, to) ==
    marked_variant_passes(content_in,
                          replace_marked_from(original_text(content_in), 1, from, to),
                          from, to, 1)

\* C12: within one apply call no chained substitution happens: no pass
\* matches and rewrites text that the literal pass or an earlier style's
\* pass wrote into the running result.
C12_NoChainedSubstitution ==
    (apc = "applied" /\ case_enabled) =>
        /\ chars_of(marked_apply(content, rfrom, rto).ms) = result
        /\ ~marked_apply(content, rfrom, rto).chained

\* the styles whose replacement is due, judged on the content as passed in
applicable(content_in, from, case_type) ==
    LET from_variant == convert_case(from, case_type)
    IN  from_variant # <<>> /\ from_variant # from /\ contains(content_in, from_variant)

\* the replacements of the styles ks, in order, on the running result
RECURSIVE replace_styles(_, _, _, _)
replace_styles(running, ks, from, to) ==
    IF ks = <<>> THEN running
    ELSE replace_styles(replace(running, convert_case(from, Head(ks)), convert_case(to, Head(ks))),
                        Tail(ks), from, to)

\* C13: with case variants enabled, style S is applied exactly when
\* convert(from, S) is non-empty, differs from from and occurs in the
\* content as passed in, whatever the running result has become; with case
\* variants disabled the result is the literal replacement of from by to.
C13_ApplicabilityFromOriginalContent ==
    apc = "applied" =>
        IF case_enabled
        THEN result = replace_styles(replace(content, rfrom, rto),
                                     SelectSeq(case_variants,
                                               LAMBDA S : applicable(content, rfrom, S)),
                                     rfrom, rto)
        ELSE result = replace(content, rfrom, rto)

\* a style is not applicable although the literal pass has written its
\* variant of from into the running result, and applying it would show
C13_Witness ==
    /\ apc = "applied" /\ case_enabled
    /\ \E k \in 1..Len(case_variants) :
          LET from_variant == convert_case(rfrom, case_variants[k])
              direct == replace(content, rfrom, rto)
          IN  /\ from_variant # <<>> /\ from_variant # rfrom
              /\ ~contains(content, from_variant)
              /\ contains(direct, from_variant)
              /\ replace(direct, from_variant, convert_case(rto, case_variants[k])) # direct
              /\ result = direct

\* C4: when neither from nor any of its five variants occurs in the
\* content, apply with case variants enabled returns the content unchanged.
C4_NoOccurrenceUnchanged ==
    (/\ apc = "applied" /\ case_enabled
     /\ ~contains(content, rfrom)
     /\ \A k \in 1..Len(case_variants) : ~contains(content, convert_case(rfrom, case_variants[k])))
    => result = content

C4_Witness ==
    /\ apc = "applied" /\ case_enabled
    /\ ~contains(content, rfrom)
    /\ \A k \in 1..Len(case_variants) : ~contains(content, convert_case(rfrom, case_variants[k]))
    /\ contains(content, rto) /\ rto # <<>>
    /\ \E k \in 1..Len(case_variants) : convert_case(rfrom, case_variants[k]) # rfrom
    /\ result = content

(***************************************************************************)
(* SpecRules: one replace_content call over a rule list                    *)
(***************************************************************************)
MaxRules == 2

RuleFroms == {<<"a">>, <<"b">>, <<"A">>}
RuleTos == {<<>>, <<"a">>, <<"b">>}
RuleContents == StringsUpTo({"a", "b"}, MaxContentLen)

\* the rule lists validate_args can leave: no two rules with one FROM
RuleLists ==
    UNION {{rs \in [1..n -> [from : RuleFroms, to : RuleTos]] :
               \A i, j \in 1..n : rs[i].from = rs[j].from => i = j} : n \in 0..MaxRules}

InitRules ==
    /\ rules \in RuleLists
    /\ content \in RuleContents
    /\ case_enabled \in BOOLEAN
    /\ rfrom = <<>> /\ rto = <<>> /\ result = <<>> /\ apc = "start"
    /\ replacement_rules = <<>> /\ mode = "None" /\ include_git_ignore = FALSE /\ vpc = "idle"
    /\ ParsedToggles
    /\ IdleCase /\ InitGlobals /\ IdleRun /\ IdleCopy

ReplaceContent ==
    /\ apc = "start"
    /\ result' = replace_content(content, rules, case_enabled)
    /\ GLOBAL_CASE_ENABLED' = global_after_replace(GLOBAL_CASE_ENABLED)
    /\ apc' = "applied"
    /\ UNCHANGED <<content, rfrom, rto, case_enabled, caseVars, argsVars, runVars, copyVars,
                   GLOBAL_RENAME_FILE_ENABLED, GLOBAL_RENAME_DIR_ENABLED>>

NextRules == ReplaceContent

SpecRules == InitRules /\ [][NextRules]_vars

\* apply(... apply(apply(content, r1), r2) ..., rn)
RECURSIVE nested_apply(_, _, _)
nested_apply(content_in, rs, enabled) ==
    IF rs = <<>> THEN content_in
    ELSE apply_replacement(nested_apply(content_in, Front(rs), enabled),
                           Last(rs).from, Last(rs).to, enabled)

\* C18: replace_content applies the rules left to right, each rule's output
\* being the next rule's input: its result for [r1, ..., rn] is
\* apply(... apply(apply(content, r1), r2) ..., rn).
C18_RulesFoldLeftToRight ==
    apc = "applied" =>
        /\ result = nested_apply(content, rules, case_enabled)
        /\ Len(rules) = 2 =>
              result = apply_replacement(
                           apply_replacement(content, rules[1].from, rules[1].to, case_enabled),
                           rules[2].from, rules[2].to, case_enabled)

\* the second rule rewrites text that only the first rule produced, and the
\* two rules in the other order give another result
C18_Witness ==
    /\ apc = "applied" /\ Len(rules) = 2
    /\ ~contains(content, rules[2].from)
    /\ contains(apply_replacement(content, rules[1].from, rules[1].to, case_enabled),
                rules[2].from)
    /\ result # replace_content(content, <<rules[2], rules[1]>>, case_enabled)
    /\ result # apply_replacement(content, rules[1].from, rules[1].to, case_enabled)

(***************************************************************************)
(* SpecArgs: args.rs validate_args                                         *)
(***************************************************************************)
MaxPairs == 3

ArgStrings == {<<>>, <<"a">>, <<"b">>}
Modes == {"None", "StdinStdout", "Files", "FilesAndNames", "Copy"}

\* -r FROM TO appends two values each time it is given
RuleArguments == UNION {[1..(2 * n) -> ArgStrings] : n \in 0..MaxPairs}

\* validate_args 196-209 without the retain: the new rule is only pushed
RECURSIVE compile_rules_no_retain(_, _, _)
compile_rules_no_retain(flat, rs, i) ==
    IF i > Len(flat) THEN rs
    ELSE compile_rules_no_retain(flat, Append(rs, [from |-> flat[i], to |-> flat[i + 1]]), i + 2)

\* validate_args 196-209: for the pair at i, i + 1 and those after it, the
\* rules with the same FROM are removed and the new rule is pushed
RECURSIVE compile_rules(_, _, _)
compile_rules(flat, rs, i) ==
    IF i > Len(flat) THEN rs
    ELSE compile_rules(flat,
                       Append(SelectSeq(rs, LAMBDA rule : rule.from # flat[i]),
                              [from |-> flat[i], to |-> flat[i + 1]]),
                       i + 2)

\* validate_args: the rule list it leaves and the Ok or the error it
\* returns.  parse() sets Mode::Copy only with copy_specs and Mode::Files
\* only with files, so the last two checks (226, 231) do not fail.
validate_args(flat, rs, m) ==
    IF flat # <<>> /\ Len(flat) % 2 # 0
    THEN [rules |-> rs, status |-> "odd_arguments"]
    ELSE IF \E i \in 1..Len(flat) : i % 2 = 1 /\ flat[i] = <<>>
    THEN [rules |-> rs, status |-> "empty_from"]
    ELSE LET compiled == compile_rules(flat, rs, 1)
         IN  IF compiled # <<>> /\ m = "None"
             THEN [rules |-> compiled, status |-> "no_target"]
             ELSE IF m # "Copy" /\ compiled = <<>>
             THEN [rules |-> compiled, status |-> "no_rules"]
             ELSE [rules |-> compiled, status |-> "ok"]

InitArgs ==
    /\ replacement_rules \in RuleArguments
    /\ mode \in Modes
    /\ rules = <<>>
    /\ include_git_ignore = FALSE
    /\ vpc = "start"
    /\ ParsedToggles
    /\ IdleCase /\ IdleApply /\ InitGlobals /\ IdleRun /\ IdleCopy

ValidateArgs ==
    /\ vpc = "start"
    /\ LET r == validate_args(replacement_rules, rules, mode)
       IN  rules' = r.rules /\ vpc' = r.status
    /\ UNCHANGED <<replacement_rules, mode, include_git_ignore,
                   args_rename_file, args_rename_dir, ignored,
                   caseVars, applyVars, globalVars, runVars, copyVars>>

NextArgs == ValidateArgs

SpecArgs == InitArgs /\ [][NextArgs]_vars

\* the number of the last -r pair whose FROM is from
last_pair_with(flat, from) ==
    CHOOSE n \in 1..(Len(flat) \div 2) :
        /\ flat[2 * n - 1] = from
        /\ \A m \in (n + 1)..(Len(flat) \div 2) : flat[2 * m - 1] # from

\* C9: after validate_args the rule list holds at most one rule per FROM,
\* no FROM is empty, and the rule of a FROM carries the TO of the last -r
\* pair given with that FROM.
C9_LastRuleWins ==
    vpc \notin {"idle", "start"} =>
        /\ \A i, j \in 1..Len(rules) : rules[i].from = rules[j].from => i = j
        /\ \A i \in 1..Len(rules) : rules[i].from # <<>>
        /\ vpc \notin {"odd_arguments", "empty_from"} =>
              /\ \A n \in 1..(Len(replacement_rules) \div 2) :
                    \E i \in 1..Len(rules) :
                        /\ rules[i].from = replacement_rules[2 * n - 1]
                        /\ rules[i].to =
                              replacement_rules[2 * last_pair_with(replacement_rules,
                                                                   rules[i].from)]
              /\ \A i \in 1..Len(rules) :
                    \E n \in 1..(Len(replacement_rules) \div 2) :
                        rules[i].from = replacement_rules[2 * n - 1]

C9_Witness ==
    /\ vpc = "ok" /\ Len(rules) = 2
    /\ \E n, m \in 1..(Len(replacement_rules) \div 2) :
          /\ n < m
          /\ replacement_rules[2 * n - 1] = replacement_rules[2 * m - 1]
          /\ replacement_rules[2 * n] # replacement_rules[2 * m]

(***************************************************************************)
(* Spec: one run of the program over a directory tree, in place            *)
(* (Mode::FilesAndNames, scanner.rs) or copying (Mode::Copy, copier.rs)    *)
(***************************************************************************)
MaxEntries == 3

Names == {<<"a">>, <<"b">>, <<"z">>}

\* the sets of at most n paths under the root that hold every path's parent
RECURSIVE shapes_up_to(_)
shapes_up_to(n) ==
    IF n = 0 THEN {{}}
    ELSE LET smaller == shapes_up_to(n - 1)
         IN  smaller \cup
             UNION {{S \cup {Append(p, nm)} : p \in S \cup {<<>>}, nm \in Names} :
                       S \in {T \in smaller : Cardinality(T) = n - 1}}

LeafKinds == {"dir", "text_a", "text_b", "binary"}

node_of(leaf_kind, p) ==
    CASE leaf_kind = "dir" -> DirNode(NodeId(p, FALSE))
      [] leaf_kind = "text_a" -> FileNode(<<"a">>, TRUE, NodeId(p, FALSE))
      [] leaf_kind = "text_b" -> FileNode(<<"b">>, TRUE, NodeId(p, FALSE))
      [] OTHER -> FileNode(<<"a">>, FALSE, NodeId(p, FALSE))

labelled(S) ==
    {[p \in S \cup {<<>>} |-> IF p = <<>> THEN DirNode(NodeId(p, FALSE)) ELSE node_of(l[p], p)] :
        l \in {k \in [S -> LeafKinds] :
                  \A p \in S : (\E q \in S : is_ancestor(p, q)) => k[p] = "dir"}}

InitialTrees == UNION {labelled(S) : S \in shapes_up_to(MaxEntries)}

\* the rule list of the run: -r a z
RunRules == <<[from |-> <<"a">>, to |-> <<"z">>]>>

InitInPlace ==
    /\ fs \in InitialTrees
    /\ fs0 = fs
    /\ mode = "FilesAndNames"
    /\ include_git_ignore = FALSE
    /\ rules = RunRules /\ replacement_rules = <<>> /\ vpc = "idle"
    /\ ParsedToggles
    /\ case_enabled = TRUE
    /\ all_paths = <<>> /\ sorted_paths = <<>> /\ idx = 0 /\ pc = "start"
    /\ processed = {} /\ reached = <<>> /\ conflicts = {}
    /\ content = <<>> /\ rfrom = <<>> /\ rto = <<>> /\ result = <<>> /\ apc = "idle"
    /\ IdleCase /\ InitGlobals /\ IdleCopy

\* scanner.rs 40-62: the walker is built and drained into all_paths
Walk ==
    /\ mode = "FilesAndNames" /\ pc = "start"
    /\ all_paths' \in scan_walk_orders(fs, <<>>, include_git_ignore)
    /\ idx' = 1
    /\ pc' = "content"
    /\ UNCHANGED <<fs, fs0, sorted_paths, processed, reached, conflicts,
                   caseVars, applyVars, globalVars, argsVars, copyVars>>

\* process_file_content(file_path): the new filesystem, or the error that
\* the ? operator hands up
process_file_content(f, file_path) ==
    IF ~is_file(f, file_path) THEN [ok |-> TRUE, fs |-> f]
    ELSE LET rd == read_to_string(f[file_path])
         IN  IF ~rd.ok THEN [ok |-> FALSE, fs |-> f]
             ELSE LET replaced == replace_content(rd.text, rules, case_enabled)
                  IN  IF rd.text # replaced
                      THEN fs_write(f, file_path, replaced, TRUE)
                      ELSE [ok |-> TRUE, fs |-> f]

\* scanner.rs 67-71: one iteration of the content loop
ContentStep ==
    /\ mode = "FilesAndNames" /\ pc = "content" /\ idx <= Len(all_paths)
    /\ LET path == all_paths[idx]
           r == process_file_content(fs, path)
       IN  /\ fs' = r.fs
           /\ processed' = processed \cup {path}
           /\ pc' = IF r.ok THEN "content" ELSE "failed"
           /\ idx' = idx + 1
           /\ GLOBAL_CASE_ENABLED' =
                 IF is_file(fs, path) /\ read_to_string(fs[path]).ok
                 THEN global_after_replace(GLOBAL_CASE_ENABLED)
                 ELSE GLOBAL_CASE_ENABLED
    /\ UNCHANGED <<fs0, all_paths, sorted_paths, reached, conflicts, caseVars, applyVars,
                   argsVars, copyVars, GLOBAL_RENAME_FILE_ENABLED, GLOBAL_RENAME_DIR_ENABLED>>

\* scanner.rs 74-80: the collected paths are sorted for the rename phase
SortPaths ==
    /\ mode = "FilesAndNames" /\ pc = "content" /\ idx > Len(all_paths)
    /\ sorted_paths' = sort_paths(all_paths)
    /\ idx' = 1
    /\ pc' = "rename"
    /\ UNCHANGED <<fs, fs0, all_paths, processed, reached, conflicts,
                   caseVars, applyVars, globalVars, argsVars, copyVars>>

\* rename_path whose conflict branch warns and then goes on to rename
rename_path_unchecked(f, path) ==
    IF \/ is_file(f, path) /\ ~GLOBAL_RENAME_FILE_ENABLED
       \/ is_dir(f, path) /\ ~GLOBAL_RENAME_DIR_ENABLED
       \/ path = <<>>
    THEN [outcome |-> "skipped", fs |-> f, new_path |-> path]
    ELSE LET old_name == Last(path)
             new_name == replace_content(old_name, rules, case_enabled)
             new_path == join(Front(path), new_name)
             rn == fs_rename(f, path, new_path)
         IN  IF old_name = new_name
             THEN [outcome |-> "same", fs |-> f, new_path |-> path]
             ELSE IF exists(f, new_path) /\ new_path # path /\ rn.ok
             THEN [outcome |-> "conflict", fs |-> rn.fs, new_path |-> new_path]
             ELSE [outcome |-> IF rn.ok THEN "renamed" ELSE "error",
                   fs |-> rn.fs, new_path |-> new_path]

\* rename_path(path): "skipped" (a toggle is off, or no file name),
\* "same" (the name is not changed by the rules), "conflict", "renamed",
\* or "error" (fs::rename failed)
rename_path(f, path) ==
    IF \/ is_file(f, path) /\ ~GLOBAL_RENAME_FILE_ENABLED
       \/ is_dir(f, path) /\ ~GLOBAL_RENAME_DIR_ENABLED
       \/ path = <<>>
    THEN [outcome |-> "skipped", fs |-> f, new_path |-> path]
    ELSE LET old_name == Last(path)
             new_name == replace_content(old_name, rules, case_enabled)
             new_path == join(Front(path), new_name)
         IN  IF old_name = new_name
             THEN [outcome |-> "same", fs |-> f, new_path |-> path]
             ELSE IF exists(f, new_path) /\ new_path # path
             THEN [outcome |-> "conflict", fs |-> f, new_path |-> new_path]
             ELSE LET rn == fs_rename(f, path, new_path)
                  IN  [outcome |-> IF rn.ok THEN "renamed" ELSE "error",
                       fs |-> rn.fs, new_path |-> new_path]

\* scanner.rs 82-84: one iteration of the rename loop
RenameStep ==
    /\ mode = "FilesAndNames" /\ pc = "rename" /\ idx <= Len(sorted_paths)
    /\ LET path == sorted_paths[idx]
           r == rename_path(fs, path)
       IN  /\ fs' = r.fs
           /\ reached' = Append(reached, [path |-> path, existed |-> exists(fs, path),
                                          outcome |-> r.outcome])
           /\ conflicts' =
                 IF r.outcome = "conflict"
                 THEN conflicts \cup {[src |-> fs[path].id, src_name |-> Last(path),
                                       dst |-> fs[r.new_path].id,
                                       dst_data |-> fs[r.new_path].data]}
                 ELSE conflicts
           /\ pc' = IF r.outcome = "error" THEN "failed" ELSE "rename"
           /\ idx' = idx + 1
           /\ GLOBAL_CASE_ENABLED' =
                 IF r.outcome = "skipped" THEN GLOBAL_CASE_ENABLED
                 ELSE global_after_replace(GLOBAL_CASE_ENABLED)
    /\ UNCHANGED <<fs0, all_paths, sorted_paths, processed, caseVars, applyVars,
                   argsVars, copyVars, GLOBAL_RENAME_FILE_ENABLED, GLOBAL_RENAME_DIR_ENABLED>>

\* scanner.rs 94: the loops are over and the run returns Ok
Finish ==
    /\ mode = "FilesAndNames" /\ pc = "rename" /\ idx > Len(sorted_paths)
    /\ pc' = "done"
    /\ UNCHANGED <<fs, fs0, all_paths, sorted_paths, idx, processed, reached, conflicts,
                   caseVars, applyVars, globalVars, argsVars, copyVars>>

(***************************************************************************)
(* copier.rs                                                               *)
(***************************************************************************)
\* fs::create_dir_all: every missing directory on the way to p is made; an
\* error when a file is in the way
create_dir_all(f, p) ==
    IF \E k \in 0..Len(p) : is_file(f, SubSeq(p, 1, k)) THEN [ok |-> FALSE, fs |-> f]
    ELSE LET made == {SubSeq(p, 1, k) : k \in 0..Len(p)} \ DOMAIN f
         IN  [ok |-> TRUE,
              fs |-> [q \in DOMAIN f \cup made |->
                         IF q \in DOMAIN f THEN f[q] ELSE DirNode(NodeId(q, TRUE))]]

\* apply_all_replacements: apply_replacement(.., true) over the rules
apply_all_replacements(text, rs) == replace_content(text, rs, TRUE)

\* copy_file(source, target): the filesystem after it, the file written
\* and whether every step succeeded
copy_file(f, source, target) ==
    LET actual_target == IF is_dir(f, target) THEN join(target, Last(source)) ELSE target
        made == create_dir_all(f, Front(actual_target))
        rd == read_to_string(f[source])
        wr == IF rd.ok
              THEN fs_write(made.fs, actual_target, apply_all_replacements(rd.text, rules), TRUE)
              ELSE fs_write(made.fs, actual_target, f[source].data, FALSE)
    IN  IF ~made.ok THEN [ok |-> FALSE, fs |-> f, actual_target |-> actual_target]
        ELSE [ok |-> wr.ok, fs |-> wr.fs, actual_target |-> actual_target]

\* transform_path(path, rules, rename_file, rename_dir): component k on; a
\* component counts as a file unless path.join(component), resolved from
\* the working directory, is a directory
RECURSIVE transform_path_from(_, _, _, _, _, _)
transform_path_from(f, path, rs, rename_file, rename_dir, k) ==
    IF k > Len(path) THEN <<>>
    ELSE LET component == path[k]
             is_file_component == ~is_dir(f, Append(path, component))
             transformed ==
                 IF (is_file_component /\ rename_file) \/ (~is_file_component /\ rename_dir)
                 THEN replace_content(component, rs, TRUE)
                 ELSE component
         IN  join(<<>>, transformed)
                 \o transform_path_from(f, path, rs, rename_file, rename_dir, k + 1)

transform_path(f, path, rs, rename_file, rename_dir) ==
    transform_path_from(f, path, rs, rename_file, rename_dir, 1)

\* copy_directory 112-136: where the copy of source_dir is rooted
target_root(f, source_dir, target_dir) ==
    IF is_dir(f, target_dir)
    THEN IF args_rename_dir
         THEN join(target_dir, replace_content(Last(source_dir), rules, TRUE))
         ELSE join(target_dir, Last(source_dir))
    ELSE target_dir

\* copy_directory 159-202: the target path of one walked entry
entry_target(f, source_dir, root_dir, source_path) ==
    LET relative_path == SubSeq(source_path, Len(source_dir) + 1, Len(source_path))
    IN  root_dir \o (IF args_rename_file \/ args_rename_dir
                     THEN transform_path(f, relative_path, rules, args_rename_file,
                                         args_rename_dir)
                     ELSE relative_path)

\* copy_with_replacements 16-40 for one copy_spec: a missing source returns
\* the error; a directory onto a file is skipped; a file is copied; for a
\* directory the target root is made and the walker built (both of its
\* branches keep the default that skips hidden entries)
CopyPair ==
    /\ mode = "Copy" /\ pc = "copy" /\ walk = <<>> /\ idx <= Len(copy_specs)
    /\ LET source == copy_specs[idx].source
           target == copy_specs[idx].target
       IN  IF ~exists(fs, source)
           THEN /\ pc' = "failed"
                /\ attempted' = Append(attempted, "missing")
                /\ UNCHANGED <<fs, idx, walk, actual_target_dir, lastcopy, GLOBAL_CASE_ENABLED>>
           ELSE IF is_dir(fs, source) /\ is_file(fs, target)
           THEN /\ idx' = idx + 1
                /\ attempted' = Append(attempted, "skipped")
                /\ UNCHANGED <<fs, pc, walk, actual_target_dir, lastcopy, GLOBAL_CASE_ENABLED>>
           ELSE IF is_file(fs, source)
           THEN LET r == copy_file(fs, source, target)
                IN  /\ fs' = r.fs
                    /\ pc' = IF r.ok THEN "copy" ELSE "failed"
                    /\ idx' = idx + 1
                    /\ attempted' = Append(attempted, IF r.ok THEN "copied" ELSE "error")
                    /\ lastcopy' = <<[source |-> source, target |-> r.actual_target,
                                      target_path |-> target, source_dir |-> source,
                                      ok |-> r.ok, utf8 |-> fs[source].utf8,
                                      data |-> fs[source].data]>>
                    /\ GLOBAL_CASE_ENABLED' =
                          IF fs[source].utf8 /\ rules # <<>> THEN TRUE ELSE GLOBAL_CASE_ENABLED
                    /\ UNCHANGED <<walk, actual_target_dir>>
           ELSE LET root_dir == target_root(fs, source, target)
                    made == create_dir_all(fs, root_dir)
                IN  /\ fs' = made.fs
                    /\ actual_target_dir' = root_dir
                    /\ lastcopy' = <<>>
                    /\ GLOBAL_CASE_ENABLED' =
                          IF is_dir(fs, target) /\ args_rename_dir /\ rules # <<>>
                          THEN TRUE ELSE GLOBAL_CASE_ENABLED
                    /\ IF ~made.ok
                       THEN /\ pc' = "failed" /\ walk' = <<>> /\ idx' = idx + 1
                            /\ attempted' = Append(attempted, "error")
                       ELSE \E order \in copy_walk_orders(made.fs, source, include_git_ignore) :
                               /\ walk' = Tail(order)
                               /\ pc' = "copy"
                               /\ idx' = IF Tail(order) = <<>> THEN idx + 1 ELSE idx
                               /\ attempted' = Append(attempted, "copied")
    /\ UNCHANGED <<fs0, all_paths, sorted_paths, processed, reached, conflicts, copy_specs,
                   caseVars, applyVars, argsVars,
                   GLOBAL_RENAME_FILE_ENABLED, GLOBAL_RENAME_DIR_ENABLED>>

\* copy_directory 159-202: one entry of the walk
CopyEntry ==
    /\ mode = "Copy" /\ pc = "copy" /\ walk # <<>>
    /\ LET source_path == Head(walk)
           target_path == entry_target(fs, copy_specs[idx].source, actual_target_dir,
                                       source_path)
           r == IF is_file(fs, source_path)
                THEN copy_file(fs, source_path, target_path)
                ELSE IF is_dir(fs, source_path)
                THEN create_dir_all(fs, target_path) @@ [actual_target |-> target_path]
                ELSE [ok |-> TRUE, fs |-> fs, actual_target |-> target_path]
       IN  /\ fs' = r.fs
           /\ lastcopy' = IF exists(fs, source_path)
                          THEN <<[source |-> source_path, target |-> r.actual_target,
                                  target_path |-> target_path,
                                  source_dir |-> copy_specs[idx].source,
                                  ok |-> r.ok, utf8 |-> fs[source_path].utf8,
                                  data |-> fs[source_path].data]>>
                          ELSE <<>>
           /\ pc' = IF r.ok THEN "copy" ELSE "failed"
           /\ attempted' = IF r.ok THEN attempted
                           ELSE [attempted EXCEPT ![Len(attempted)] = "error"]
           /\ walk' = Tail(walk)
           /\ idx' = IF Tail(walk) = <<>> THEN idx + 1 ELSE idx
           /\ GLOBAL_CASE_ENABLED' = IF rules # <<>> THEN TRUE ELSE GLOBAL_CASE_ENABLED
    /\ UNCHANGED <<fs0, all_paths, sorted_paths, processed, reached, conflicts, copy_specs,
                   actual_target_dir, caseVars, applyVars, argsVars,
                   GLOBAL_RENAME_FILE_ENABLED, GLOBAL_RENAME_DIR_ENABLED>>

\* copy_with_replacements 42: every copy_spec is done and the run returns Ok
CopyFinish ==
    /\ mode = "Copy" /\ pc = "copy" /\ walk = <<>> /\ idx > Len(copy_specs)
    /\ pc' = "done"
    /\ UNCHANGED <<fs, fs0, all_paths, sorted_paths, idx, processed, reached, conflicts,
                   caseVars, applyVars, globalVars, argsVars, copyVars>>

\* -c SOURCE... TARGET: every source is paired with the one target
CopyRequests ==
    {<<[source |-> <<<<"a">>>>, target |-> <<<<"z">>>>]>>,
     <<[source |-> <<<<"a">>>>, target |-> <<<<"a">>>>]>>,
     <<[source |-> <<<<"a">>>>, target |-> <<<<"z">>>>],
       [source |-> <<<<"b">>>>, target |-> <<<<"z">>>>]>>,
     <<[source |-> <<<<"a">>, <<"b">>>>, target |-> <<<<"b">>>>]>>}

\* a directory is not copied to a place inside itself: the walk would
\* descend into its own output
CopyStart ==
    /\ fs \in InitialTrees
    /\ fs0 = fs
    /\ mode = "Copy"
    /\ include_git_ignore = FALSE
    /\ rules = RunRules /\ replacement_rules = <<>> /\ vpc = "idle"
    /\ copy_specs \in CopyRequests
    /\ \A i \in 1..Len(copy_specs) :
          ~(is_dir(fs, copy_specs[i].source)
            /\ is_prefix(copy_specs[i].source, copy_specs[i].target))
    /\ attempted = <<>> /\ walk = <<>> /\ actual_target_dir = <<>> /\ lastcopy = <<>>
    /\ all_paths = <<>> /\ sorted_paths = <<>> /\ idx = 1 /\ pc = "copy"
    /\ processed = {} /\ reached = <<>> /\ conflicts = {}
    /\ content = <<>> /\ rfrom = <<>> /\ rto = <<>> /\ result = <<>> /\ apc = "idle"
    /\ IdleCase

\* a copy run as parse() configures it
InitCopy == CopyStart /\ ParsedToggles /\ case_enabled = TRUE /\ InitGlobals

Init == InitInPlace \/ InitCopy

Next ==
    \/ Walk \/ ContentStep \/ SortPaths \/ RenameStep \/ Finish
    \/ CopyPair \/ CopyEntry \/ CopyFinish

Spec == Init /\ [][Next]_vars

\* C17: in a directory copy every walked file is written at the destination
\* root joined with its transformed relative path and nowhere else, the
\* directories on that path being there; only a single-file source copied
\* into an existing directory keeps its base name untransformed.
C17_FileWrittenAtTransformedPath ==
    \A k \in 1..Len(lastcopy) :
        LET c == lastcopy[k]
        IN  (c.ok /\ c.source # c.source_dir /\ is_file(fs0, c.source)) =>
                /\ c.target = c.target_path
                /\ is_file(fs, c.target_path)
                /\ \A n \in 0..(Len(c.target_path) - 1) : is_dir(fs, SubSeq(c.target_path, 1, n))

(***************************************************************************)
(* SpecInPlace: in-place runs over trees with hidden entries and entries   *)
(* that ignore rules exclude, with or without --include-git-ignore, and    *)
(* with a TO that holds a path separator                                   *)
(***************************************************************************)
MaxWalkEntries == 2

WalkNames == {<<".", "a">>, <<"a">>, <<"b">>}

RECURSIVE walk_shapes_up_to(_)
walk_shapes_up_to(n) ==
    IF n = 0 THEN {{}}
    ELSE LET smaller == walk_shapes_up_to(n - 1)
         IN  smaller \cup
             UNION {{S \cup {Append(p, nm)} : p \in S \cup {<<>>}, nm \in WalkNames} :
                       S \in {T \in smaller : Cardinality(T) = n - 1}}

\* every entry is a directory or a text file holding "a"
WalkTrees ==
    UNION {{[p \in S \cup {<<>>} |->
                IF p = <<>> \/ l[p] THEN DirNode(NodeId(p, FALSE))
                ELSE FileNode(<<"a">>, TRUE, NodeId(p, FALSE))] :
              l \in {k \in [S -> BOOLEAN] :
                        \A p \in S : (\E q \in S : is_ancestor(p, q)) => k[p]}} :
           S \in walk_shapes_up_to(MaxWalkEntries)}

\* -r a z, or -r a b/z
InPlaceRules ==
    {<<[from |-> <<"a">>, to |-> <<"z">>]>>,
     <<[from |-> <<"a">>, to |-> <<"b", "/", "z">>]>>}

InitInPlaceWalk ==
    /\ fs \in WalkTrees
    /\ fs0 = fs
    /\ mode = "FilesAndNames"
    /\ include_git_ignore \in BOOLEAN
    /\ ignored \in SUBSET (DOMAIN fs \ {<<>>})
    /\ args_rename_file = TRUE /\ args_rename_dir = TRUE
    /\ rules \in InPlaceRules /\ replacement_rules = <<>> /\ vpc = "idle"
    /\ case_enabled = TRUE
    /\ all_paths = <<>> /\ sorted_paths = <<>> /\ idx = 0 /\ pc = "start"
    /\ processed = {} /\ reached = <<>> /\ conflicts = {}
    /\ content = <<>> /\ rfrom = <<>> /\ rto = <<>> /\ result = <<>> /\ apc = "idle"
    /\ IdleCase /\ InitGlobals /\ IdleCopy

NextInPlace == Walk \/ ContentStep \/ SortPaths \/ RenameStep \/ Finish

SpecInPlace == InitInPlaceWalk /\ [][NextInPlace]_vars

\* C16: in an in-place run the walker yields every hidden entry (that no
\* ignore rule in force excludes), whatever include_git_ignore is, and with
\* include_git_ignore set it yields every entry under the root; so those
\* entries get their content phase and their rename phase.
C16_HiddenAndIgnoredAreWalked ==
    pc # "start" =>
        LET collected == {all_paths[k] : k \in 1..Len(all_paths)}
            excluded(p) == \E k \in 1..Len(p) : SubSeq(p, 1, k) \in ignored
        IN  /\ \A p \in DOMAIN fs0 :
                  ((\E k \in 1..Len(p) : is_hidden(p[k])) /\ ~excluded(p)) => p \in collected
            /\ include_git_ignore => \A p \in DOMAIN fs0 : p \in collected

\* C19: a step of the rename phase moves at most the entry it processes, and
\* only within its parent directory: no entry is created, deleted or merged
\* and no content changes; the entry and what is below it keep their place
\* but for the entry's own name, and every other entry keeps its path.
C19_RenameStaysInParent ==
    [][(pc = "rename" /\ idx <= Len(sorted_paths)) =>
          LET path == sorted_paths[idx]
          IN  /\ Cardinality(DOMAIN fs') = Cardinality(DOMAIN fs)
              /\ \A p \in DOMAIN fs :
                    \E q \in DOMAIN fs' :
                        /\ fs'[q] = fs[p]
                        /\ Len(q) = Len(p)
                        /\ \A n \in 1..Len(p) : q[n] # p[n] => (n = Len(path) /\ is_prefix(path, p))
      ]_vars

(***************************************************************************)
(* SpecCopy: a copy run whose toggles the surrounding application has set  *)
(* (the fields of Args and the statics of args.rs are public)              *)
(***************************************************************************)
InitCopyConfigured ==
    /\ CopyStart
    /\ args_rename_file \in BOOLEAN /\ args_rename_dir \in BOOLEAN /\ ignored = {}
    /\ case_enabled \in BOOLEAN
    /\ GLOBAL_CASE_ENABLED = case_enabled
    /\ GLOBAL_RENAME_FILE_ENABLED = args_rename_file
    /\ GLOBAL_RENAME_DIR_ENABLED = args_rename_dir

NextCopy == CopyPair \/ CopyEntry \/ CopyFinish

SpecCopy == InitCopyConfigured /\ [][NextCopy]_vars

(***************************************************************************)
(* Properties of a run (Spec)                                              *)
(***************************************************************************)
InPlace == mode = "FilesAndNames"
Copying == mode = "Copy"
Ended == pc \in {"done", "failed"}

\* the entry of filesystem f that has identity id, as a set of paths
paths_of(f, id) == {p \in DOMAIN f : f[p].id = id}

\* the tree a/b/b, the file a/b/b holding "a", and what -r a z makes of it
ExampleTree ==
    [p \in {<<>>, <<<<"a">>>>, <<<<"a">>, <<"b">>>>, <<<<"a">>, <<"b">>, <<"b">>>>} |->
        IF Len(p) = 3 THEN FileNode(<<"a">>, TRUE, NodeId(p, FALSE))
        ELSE DirNode(NodeId(p, FALSE))]

ExampleResult ==
    [p \in {<<>>, <<<<"z">>>>, <<<<"z">>, <<"b">>>>, <<<<"z">>, <<"b">>, <<"b">>>>} |->
        LET was == IF p = <<>> THEN p ELSE <<<<"a">>>> \o Tail(p)
        IN  IF Len(p) = 3 THEN FileNode(<<"z">>, TRUE, NodeId(was, FALSE))
            ELSE DirNode(NodeId(was, FALSE))]

\* C1: in an in-place run the rename phase takes every collected path, and
\* takes it before any of its ancestor directories; every path still names
\* an existing entry when rename_path reaches it; and the run over the tree
\* a/b/b with the rule a -> z ends without error in z/b/b, the file's
\* content rewritten.
C1_DeepestFirst ==
    InPlace =>
        /\ \A i, j \in 1..Len(sorted_paths) :
              i < j => ~is_ancestor(sorted_paths[i], sorted_paths[j])
        /\ pc \in {"rename", "done"} =>
              /\ Len(sorted_paths) = Len(all_paths)
              /\ {sorted_paths[k] : k \in 1..Len(sorted_paths)}
                    = {all_paths[k] : k \in 1..Len(all_paths)}
        /\ \A k \in 1..Len(reached) :
              reached[k].existed /\ reached[k].path = sorted_paths[k]
        /\ pc = "done" => Len(reached) = Len(all_paths)
        /\ fs0 = ExampleTree => pc # "failed" /\ (pc = "done" => fs = ExampleResult)

C1_Witness == InPlace /\ pc = "done" /\ fs0 = ExampleTree /\ fs = ExampleResult

\* C2 as stated: after a rename conflict the source has its old name and
\* the destination entry is there with the content it had before the run.
C2_DestinationKeepsOriginalContent ==
    \A c \in conflicts :
        /\ \E q \in paths_of(fs, c.src) : Last(q) = c.src_name
        /\ \E p \in paths_of(fs, c.dst) : fs[p].data = fs0[c.dst.at].data

\* C2 as amended: after a rename conflict the source has its old name and
\* the destination entry is never overwritten: it keeps the content it had
\* when the conflict was found, which is its original content as the
\* content phase rewrote it by the rules.
C2_ConflictSkipped ==
    \A c \in conflicts :
        /\ \E q \in paths_of(fs, c.src) : Last(q) = c.src_name
        /\ \E p \in paths_of(fs, c.dst) :
              /\ fs[p].data = c.dst_data
              /\ fs[p].kind = fs0[c.dst.at].kind
              /\ fs[p].data = replace_content(fs0[c.dst.at].data, rules, case_enabled)

C2_Witness ==
    /\ InPlace /\ pc = "done"
    /\ \E c \in conflicts : \E p \in paths_of(fs, c.dst) :
          fs[p].kind = "file" /\ fs[p].data # fs0[c.dst.at].data

\* C5: in an in-place run a failure on one entry does not end the run:
\* every collected entry gets its content phase and its rename phase.
C5_FailureIsEntryScoped ==
    (InPlace /\ Ended) =>
        /\ pc = "done"
        /\ \A k \in 1..Len(all_paths) : all_paths[k] \in processed
        /\ Len(reached) = Len(all_paths)

\* C6: a copy_spec whose source is missing is an error for that pair only:
\* the later pairs are attempted all the same.
C6_MissingSourceIsPairScoped ==
    (Copying /\ Ended) =>
        \A i \in 1..Len(attempted) :
            attempted[i] = "missing" => Len(attempted) = Len(copy_specs)

\* C7: a file that is not UTF-8 is never content-rewritten: a copy of it
\* holds the bytes of its source, and an in-place run leaves its bytes as
\* they were.
C7_BinaryUntouched ==
    /\ \A k \in 1..Len(lastcopy) :
          (lastcopy[k].ok /\ ~lastcopy[k].utf8) =>
              /\ is_file(fs, lastcopy[k].target)
              /\ fs[lastcopy[k].target].data = lastcopy[k].data
              /\ ~fs[lastcopy[k].target].utf8
    /\ InPlace =>
          \A p \in DOMAIN fs0 :
              (fs0[p].kind = "file" /\ ~fs0[p].utf8) =>
                  \E q \in paths_of(fs, fs0[p].id) :
                      fs[q].data = fs0[p].data /\ ~fs[q].utf8

C7_Witness ==
    /\ Copying
    /\ \E k \in 1..Len(lastcopy) :
          /\ lastcopy[k].ok /\ ~lastcopy[k].utf8
          /\ lastcopy[k].source # lastcopy[k].target
          /\ replace_content(lastcopy[k].data, rules, TRUE) # lastcopy[k].data

\* C8: copy mode never changes a source: when copy_with_replacements
\* returns, every source file or tree has the names and contents it had.
C8_SourceUnchanged ==
    (Copying /\ Ended) =>
        \A i \in 1..Len(copy_specs) :
            \A p \in DOMAIN fs0 \cup DOMAIN fs :
                is_prefix(copy_specs[i].source, p) =>
                    /\ p \in DOMAIN fs0 /\ p \in DOMAIN fs
                    /\ fs[p].kind = fs0[p].kind
                    /\ fs[p].data = fs0[p].data

(***************************************************************************)
(* Properties of a configured copy run (SpecCopy)                          *)
(***************************************************************************)
\* the relative path of a walked entry with each component transformed
\* under the toggle of its kind: a directory of the source tree under
\* args.rename_dir, a file under args.rename_file
transformed_by_kind(source_dir, source_path) ==
    [i \in 1..(Len(source_path) - Len(source_dir)) |->
        LET component == source_path[Len(source_dir) + i]
            toggle == IF is_dir(fs0, SubSeq(source_path, 1, Len(source_dir) + i))
                      THEN args_rename_dir ELSE args_rename_file
        IN  IF toggle THEN replace_content(component, rules, TRUE) ELSE component]

\* C14: in a directory copy each component of a descendant's relative path
\* is transformed on its own, a file component only when rename_file is on
\* and a directory component only when rename_dir is on.
C14_ComponentsFollowTheirToggle ==
    \A k \in 1..Len(lastcopy) :
        lastcopy[k].source # lastcopy[k].source_dir =>
            lastcopy[k].target_path
                = actual_target_dir
                      \o transformed_by_kind(lastcopy[k].source_dir, lastcopy[k].source)

\* C15: the toggles are established before the traversal and no step of a
\* run changes them: each static keeps the value the run was configured
\* with, so every replacement, which reads GLOBAL_CASE_ENABLED, is made with
\* the configured case-variant value.
C15_TogglesKeepConfiguredValue ==
    /\ GLOBAL_CASE_ENABLED = case_enabled
    /\ GLOBAL_RENAME_FILE_ENABLED = args_rename_file
    /\ GLOBAL_RENAME_DIR_ENABLED = args_rename_dir

====
